---------------------------- MODULE Spec2Model ----------------------------
(* The LC-3 virtual machine of maxpushka/lc3.                              *)
(*                                                                         *)
(*   state.rs     State, Registers (update_flags), Memory (read, write)    *)
(*   defs.rs      R, OP, TRAP, FL, MR                                      *)
(*   instr.rs     sign_extend and one routine per opcode                   *)
(*   terminal.rs  check_key, the zero-timeout poll of standard input       *)
(*   main.rs      the execution loop: fetch, increment PC, match on the    *)
(*                opcode                                                   *)
(*                                                                         *)
(* The machine is the loop of main.rs over the State of state.rs. The      *)
(* routine run for an opcode is the one instr.rs defines for it (the       *)
(* encoding comment above each routine names the opcode). instr.rs has no  *)
(* routine for RTI and RES: their arms are the todo!() of main.rs.         *)
EXTENDS Integers, Sequences, FiniteSets, TLC

VARIABLES
    reg,              \* Registers.reg: [u16; R::COUNT], indexed 0..9
    mem,              \* Memory.data, kept as its non-zero words: address -> word
    running,          \* State.running
    instr,            \* main: the word the last fetch returned
    phase,            \* main: "fetch" (top of the loop), "dispatch" (at the match), "panic"
    steps,            \* number of fetches so far
    overflow_checks,  \* the build: TRUE = overflow checks on (debug), FALSE = off (release)
    tty,              \* bytes waiting in the terminal, not yet read by the process
    stdin_buf,        \* bytes std::io::stdin() has read from the terminal and still buffers
    stdout,           \* the characters handed to print!, in order
    reads,            \* the addresses passed to Memory::read during the last step, in order
    to_type,          \* the bytes the user has yet to type, in order
    se_x,             \* sign_extend alone: its argument x
    se_n,             \* sign_extend alone: its argument bit_count
    se_r              \* sign_extend alone: the outcome, [state: "none" | "ok" | "panic", val]

vars == <<reg, mem, running, instr, phase, steps, overflow_checks, tty, stdin_buf,
          stdout, reads, to_type, se_x, se_n, se_r>>

machine == <<reg, mem, running, instr, phase, steps, tty, stdin_buf, stdout, reads, to_type>>

-----------------------------------------------------------------------------
(* defs.rs *)

R_R0 == 0
R_R7 == 7
R_PC == 8
R_COND == 9
R_COUNT == 10

OP_BR == 0
OP_ADD == 1
OP_LD == 2
OP_ST == 3
OP_JSR == 4
OP_AND == 5
OP_LDR == 6
OP_STR == 7
OP_RTI == 8
OP_NOT == 9
OP_LDI == 10
OP_STI == 11
OP_JMP == 12
OP_RES == 13
OP_LEA == 14
OP_TRAP == 15

TRAP_GETC == 32
TRAP_OUT == 33
TRAP_PUTS == 34
TRAP_IN == 35
TRAP_PUTSP == 36
TRAP_HALT == 37

FL_POS == 1
FL_ZRO == 2
FL_NEG == 4

MR_KBSR == 65024
MR_KBDR == 65026

PC_START == 12288

-----------------------------------------------------------------------------
(* u16 arithmetic *)

U16 == 2 ^ 16

RECURSIVE BitAnd(_, _)
BitAnd(a, b) ==
    IF a = 0 \/ b = 0 THEN 0
    ELSE (a % 2) * (b % 2) + 2 * BitAnd(a \div 2, b \div 2)

BitOr(a, b) == a + b - BitAnd(a, b)

BitNot(a) == (U16 - 1) - a

Shr(x, n) == x \div (2 ^ n)

wrapping_add(a, b) == (a + b) % U16

\* `0xFFFF << bit_count` on u16. A shift by 16 or more overflows: with overflow
\* checks the program panics, without them the amount is taken modulo 16.
ShlOverflows(n) == n >= 16

Shl(x, n) == (x * 2 ^ (n % 16)) % U16

\* x read as a signed bit_count-bit integer, as a u16 in two's complement.
TwosComplement(x, n) == IF x >= 2 ^ (n - 1) THEN (x - 2 ^ n) % U16 ELSE x

-----------------------------------------------------------------------------
(* instr.rs: sign_extend *)

sign_extend(x, bit_count) ==
    IF BitAnd(Shr(x, bit_count - 1), 1) # 0
    THEN BitOr(x, Shl(65535, bit_count))
    ELSE x

\* Whether sign_extend(x, bit_count) panics in a build with overflow checks.
sign_extend_overflows(x, bit_count) ==
    BitAnd(Shr(x, bit_count - 1), 1) # 0 /\ ShlOverflows(bit_count)

-----------------------------------------------------------------------------
(* state.rs: Memory *)

MemGet(m, a) == IF a \in DOMAIN m THEN m[a] ELSE 0

MemSet(m, a, v) ==
    IF v = 0
    THEN [x \in DOMAIN m \ {a} |-> m[x]]
    ELSE [x \in DOMAIN m \cup {a} |-> IF x = a THEN v ELSE m[x]]

\* terminal.rs check_key: standard input is readable when the terminal holds a byte.
check_key(s) == s.tty # <<>>

\* stdin().read_exact(&mut [0u8; 1]): a byte of the buffer, refilled from the
\* terminal when empty. Called only when check_key said the terminal is readable.
StdinTake(s) ==
    LET src == IF s.stdin_buf # <<>> THEN s.stdin_buf ELSE s.tty
    IN  [byte |-> Head(src),
         s |-> [s EXCEPT !.stdin_buf = Tail(src),
                         !.tty = IF s.stdin_buf # <<>> THEN s.tty ELSE <<>>]]

MemoryWrite(s, address, value) == [s EXCEPT !.mem = MemSet(s.mem, address, value)]

\* Memory::read: the state it leaves and the word it returns.
MemoryRead_keeps_status(s, address) ==
    LET s1 == [s EXCEPT !.reads = Append(s.reads, address)]
        s2 == IF address = MR_KBSR /\ check_key(s1)
              THEN LET t == StdinTake(s1)
                   IN  MemoryWrite(MemoryWrite(t.s, MR_KBSR, 2 ^ 15), MR_KBDR, t.byte)
              ELSE s1
    IN  [s |-> s2, value |-> MemGet(s2.mem, address)]

MemoryRead(s, address) ==
    LET s1 == [s EXCEPT !.reads = Append(s.reads, address)]
        s2 == IF address = MR_KBSR
              THEN IF check_key(s1)
                   THEN LET t == StdinTake(s1)
                        IN  MemoryWrite(MemoryWrite(t.s, MR_KBSR, 2 ^ 15), MR_KBDR, t.byte)
                   ELSE MemoryWrite(s1, MR_KBSR, 0)
              ELSE s1
    IN  [s |-> s2, value |-> MemGet(s2.mem, address)]

-----------------------------------------------------------------------------
(* state.rs: Registers *)

update_flags(s, r) ==
    IF s.reg[r] = 0
    THEN [s EXCEPT !.reg[R_COND] = FL_ZRO]
    ELSE IF Shr(s.reg[r], 15) # 0
         THEN [s EXCEPT !.reg[R_COND] = FL_NEG]
         ELSE [s EXCEPT !.reg[R_COND] = FL_POS]

-----------------------------------------------------------------------------
(* instr.rs: the routines. Each takes the instruction word and the State     *)
(* and gives the State it leaves.                                            *)

do_add_saturating(i, s) ==
    LET r0 == BitAnd(Shr(i, 9), 7)
        r1 == BitAnd(Shr(i, 6), 7)
        imm_flag == BitAnd(Shr(i, 5), 1)
        operand == IF imm_flag # 0 THEN sign_extend(BitAnd(i, 31), 5) ELSE s.reg[BitAnd(i, 7)]
        sum == s.reg[r1] + operand
    IN  update_flags([s EXCEPT !.reg[r0] = IF sum >= U16 THEN U16 - 1 ELSE sum], r0)

do_add_no_imm(i, s) ==
    LET r0 == BitAnd(Shr(i, 9), 7)
        r1 == BitAnd(Shr(i, 6), 7)
        r2 == BitAnd(i, 7)
    IN  update_flags([s EXCEPT !.reg[r0] = wrapping_add(s.reg[r1], s.reg[r2])], r0)

do_add(i, s) ==
    LET r0 == BitAnd(Shr(i, 9), 7)
        r1 == BitAnd(Shr(i, 6), 7)
        imm_flag == BitAnd(Shr(i, 5), 1)
    IN  IF imm_flag # 0
        THEN LET imm5 == sign_extend(BitAnd(i, 31), 5)
             IN  update_flags([s EXCEPT !.reg[r0] = wrapping_add(s.reg[r1], imm5)], r0)
        ELSE LET r2 == BitAnd(i, 7)
             IN  update_flags([s EXCEPT !.reg[r0] = wrapping_add(s.reg[r1], s.reg[r2])], r0)

do_ldi(i, s) ==
    LET r0 == BitAnd(Shr(i, 4), 7)
        pc_offset == sign_extend(BitAnd(i, 511), 9)
        a == MemoryRead(s, s.reg[R_PC])
        pc == a.value
        b == MemoryRead(a.s, wrapping_add(pc, pc_offset))
    IN  update_flags([b.s EXCEPT !.reg[r0] = b.value], r0)

do_and(i, s) ==
    LET r0 == BitAnd(Shr(i, 9), 7)
        r1 == BitAnd(Shr(i, 6), 7)
        imm_flag == BitAnd(Shr(i, 5), 1)
    IN  IF imm_flag # 0
        THEN LET imm5 == sign_extend(BitAnd(i, 31), 5)
             IN  update_flags([s EXCEPT !.reg[r0] = BitAnd(s.reg[r1], imm5)], r0)
        ELSE LET r2 == BitAnd(i, 7)
             IN  update_flags([s EXCEPT !.reg[r0] = BitAnd(s.reg[r1], s.reg[r2])], r0)

do_not(i, s) ==
    LET r0 == BitAnd(Shr(i, 9), 7)
        r1 == BitAnd(Shr(i, 6), 7)
    IN  update_flags([s EXCEPT !.reg[r0] = BitNot(s.reg[r1])], r0)

do_br_ignores_flags(i, s) ==
    LET pc_offset == sign_extend(BitAnd(i, 511), 9)
    IN  [s EXCEPT !.reg[R_PC] = wrapping_add(s.reg[R_PC], pc_offset)]

do_br(i, s) ==
    LET cond_flag == BitAnd(Shr(i, 9), 7)
        pc_offset == sign_extend(BitAnd(i, 511), 9)
    IN  IF BitAnd(cond_flag, s.reg[R_COND]) # 0
        THEN [s EXCEPT !.reg[R_PC] = wrapping_add(s.reg[R_PC], pc_offset)]
        ELSE s

do_jmp(i, s) ==
    LET r1 == BitAnd(Shr(i, 6), 7)
    IN  [s EXCEPT !.reg[R_PC] = s.reg[r1]]

do_jsr_link_late(i, s) ==
    LET long_flag == BitAnd(Shr(i, 11), 1)
        s1 == IF long_flag # 0
              THEN [s EXCEPT !.reg[R_PC] =
                       wrapping_add(s.reg[R_PC], sign_extend(BitAnd(i, 2047), 11))]
              ELSE [s EXCEPT !.reg[R_PC] = s.reg[BitAnd(Shr(i, 6), 7)]]
    IN  [s1 EXCEPT !.reg[R_R7] = s1.reg[R_PC]]

do_jsr(i, s) ==
    LET long_flag == BitAnd(Shr(i, 11), 1)
        s1 == [s EXCEPT !.reg[R_R7] = s.reg[R_PC]]
    IN  IF long_flag # 0
        THEN LET long_pc_offset == sign_extend(BitAnd(i, 2047), 11)
             IN  [s1 EXCEPT !.reg[R_PC] = wrapping_add(s1.reg[R_PC], long_pc_offset)]
        ELSE LET r1 == BitAnd(Shr(i, 6), 7)
             IN  [s1 EXCEPT !.reg[R_PC] = s1.reg[r1]]

do_ld_before_increment(i, s) ==
    LET r0 == BitAnd(Shr(i, 9), 7)
        pc_offset == sign_extend(BitAnd(i, 511), 9)
        a == MemoryRead(s, wrapping_add(wrapping_add(s.reg[R_PC], U16 - 1), pc_offset))
    IN  update_flags([a.s EXCEPT !.reg[r0] = a.value], r0)

do_ld(i, s) ==
    LET r0 == BitAnd(Shr(i, 9), 7)
        pc_offset == sign_extend(BitAnd(i, 511), 9)
        a == MemoryRead(s, wrapping_add(s.reg[R_PC], pc_offset))
    IN  update_flags([a.s EXCEPT !.reg[r0] = a.value], r0)

do_ldr(i, s) ==
    LET r0 == BitAnd(Shr(i, 9), 7)
        r1 == BitAnd(Shr(i, 6), 7)
        offset == sign_extend(BitAnd(i, 63), 6)
        a == MemoryRead(s, wrapping_add(s.reg[r1], offset))
    IN  update_flags([a.s EXCEPT !.reg[r0] = a.value], r0)

do_lea(i, s) ==
    LET r0 == BitAnd(Shr(i, 9), 7)
        pc_offset == sign_extend(BitAnd(i, 511), 9)
    IN  update_flags([s EXCEPT !.reg[r0] = wrapping_add(s.reg[R_PC], pc_offset)], r0)

do_st(i, s) ==
    LET r0 == BitAnd(Shr(i, 9), 7)
        pc_offset == sign_extend(BitAnd(i, 511), 9)
        address == wrapping_add(R_PC, pc_offset)
        value == s.reg[r0]
    IN  MemoryWrite(s, address, value)

do_sti(i, s) ==
    LET r0 == BitAnd(Shr(i, 9), 7)
        pc_offset == sign_extend(BitAnd(i, 511), 9)
        a == MemoryRead(s, wrapping_add(R_PC, pc_offset))
        address == a.value
        value == a.s.reg[r0]
    IN  MemoryWrite(a.s, address, value)

do_str_updates_flags(i, s) ==
    LET r0 == BitAnd(Shr(i, 9), 7)
        r1 == BitAnd(Shr(i, 6), 7)
        offset == sign_extend(BitAnd(i, 63), 6)
        address == wrapping_add(s.reg[r1], offset)
        value == s.reg[r0]
    IN  update_flags(MemoryWrite(s, address, value), r0)

do_str(i, s) ==
    LET r0 == BitAnd(Shr(i, 9), 7)
        r1 == BitAnd(Shr(i, 6), 7)
        offset == sign_extend(BitAnd(i, 63), 6)
        address == wrapping_add(s.reg[r1], offset)
        value == s.reg[r0]
    IN  MemoryWrite(s, address, value)

RECURSIVE puts_loop_stops(_, _)
puts_loop_stops(s, address) ==
    LET a == MemoryRead(s, address)
        c == a.value % 256
    IN  IF c = 0
        THEN [a.s EXCEPT !.running = FALSE]
        ELSE puts_loop_stops([a.s EXCEPT !.stdout = Append(@, c)], wrapping_add(address, 1))

\* TRAP PUTS: the loop of instr.rs 371-378 from `address` on.
RECURSIVE puts_loop(_, _)
puts_loop(s, address) ==
    LET a == MemoryRead(s, address)
        c == a.value % 256
    IN  IF c = 0
        THEN a.s
        ELSE puts_loop([a.s EXCEPT !.stdout = Append(@, c)], wrapping_add(address, 1))

\* TRAP PUTSP: the loop of instr.rs 399-407 from `c` on.
RECURSIVE putsp_loop(_, _)
putsp_loop(s, c) ==
    LET t == MemoryRead(s, c)
    IN  IF t.value = 0
        THEN t.s
        ELSE LET a == MemoryRead(t.s, c)
                 char1 == BitAnd(a.value, 255) % 256
                 s1 == [a.s EXCEPT !.stdout = Append(@, char1)]
                 b == MemoryRead(s1, c)
                 char2 == Shr(b.value, 8) % 256
                 s2 == [b.s EXCEPT !.stdout = Append(@, char2)]
             IN  putsp_loop(s2, wrapping_add(c, 1))

\* The bytes standard input can hand over without waiting: its buffer, then the terminal.
StdinAvail(s) == s.stdin_buf \o s.tty

NEWLINE == 10

HasLine(q) == \E k \in 1..Len(q) : q[k] = NEWLINE

FirstNewline(q) == CHOOSE k \in 1..Len(q) : q[k] = NEWLINE /\ \A j \in 1..(k - 1) : q[j] # NEWLINE

\* stdin().read_line(&mut input): the line it returns, newline included. The buffer
\* is used up first and refilled with everything the terminal holds.
StdinReadLine(s) ==
    LET fromBuf == HasLine(s.stdin_buf)
        src == IF fromBuf THEN s.stdin_buf ELSE StdinAvail(s)
        k == FirstNewline(src)
    IN  [line |-> SubSeq(src, 1, k),
         s |-> [s EXCEPT !.stdin_buf = SubSeq(src, k + 1, Len(src)),
                         !.tty = IF fromBuf THEN s.tty ELSE <<>>]]

\* A console read waits for input: GETC for one byte, IN for a whole line.
trap_blocks(i, s) ==
    \/ BitAnd(i, 255) = TRAP_GETC /\ StdinAvail(s) = <<>>
    \/ BitAnd(i, 255) = TRAP_IN /\ ~HasLine(StdinAvail(s))

PROMPT == <<69, 110, 116, 101, 114, 32, 97, 32, 99, 104, 97, 114, 97, 99, 116, 101, 114, 58, 32>>

HALT_NOTICE == <<72, 65, 76, 84, 10>>

do_trap_skips_unknown(i, s) ==
    LET s1 == [s EXCEPT !.reg[R_R7] = s.reg[R_PC]]
        trap_vector == BitAnd(i, 255)
    IN  CASE trap_vector = TRAP_GETC ->
               LET t == StdinTake(s1)
               IN  update_flags([t.s EXCEPT !.reg[R_R0] = t.byte], R_R0)
          [] trap_vector = TRAP_OUT ->
               [s1 EXCEPT !.stdout = Append(@, s1.reg[R_R0] % 256)]
          [] trap_vector = TRAP_PUTS ->
               puts_loop(s1, s1.reg[R_R0])
          [] trap_vector = TRAP_IN ->
               LET s2 == [s1 EXCEPT !.stdout = @ \o PROMPT]
                   t == StdinReadLine(s2)
                   c == Head(t.line)
               IN  update_flags([t.s EXCEPT !.stdout = Append(@, c), !.reg[R_R0] = c], R_R0)
          [] trap_vector = TRAP_PUTSP ->
               putsp_loop(s1, s1.reg[R_R0])
          [] trap_vector = TRAP_HALT ->
               [s1 EXCEPT !.stdout = @ \o HALT_NOTICE, !.running = FALSE]
          [] OTHER ->
               s1

do_trap(i, s) ==
    LET s1 == [s EXCEPT !.reg[R_R7] = s.reg[R_PC]]
        trap_vector == BitAnd(i, 255)
    IN  CASE trap_vector = TRAP_GETC ->
               LET t == StdinTake(s1)
               IN  update_flags([t.s EXCEPT !.reg[R_R0] = t.byte], R_R0)
          [] trap_vector = TRAP_OUT ->
               [s1 EXCEPT !.stdout = Append(@, s1.reg[R_R0] % 256)]
          [] trap_vector = TRAP_PUTS ->
               puts_loop(s1, s1.reg[R_R0])
          [] trap_vector = TRAP_IN ->
               LET s2 == [s1 EXCEPT !.stdout = @ \o PROMPT]
                   t == StdinReadLine(s2)
                   c == Head(t.line)
               IN  update_flags([t.s EXCEPT !.stdout = Append(@, c), !.reg[R_R0] = c], R_R0)
          [] trap_vector = TRAP_PUTSP ->
               putsp_loop(s1, s1.reg[R_R0])
          [] trap_vector = TRAP_HALT ->
               [s1 EXCEPT !.stdout = @ \o HALT_NOTICE, !.running = FALSE]
          [] OTHER ->
               [s1 EXCEPT !.panicked = TRUE]

-----------------------------------------------------------------------------
(* state.rs: State::new, Registers::new, Memory::new *)

NoMemory == [a \in {} |-> 0]

StateNew ==
    [reg |-> [r \in 0..(R_COUNT - 1) |->
                 IF r = R_COND THEN FL_ZRO ELSE IF r = R_PC THEN PC_START ELSE 0],
     mem |-> NoMemory,
     running |-> FALSE]

-----------------------------------------------------------------------------
(* Bounds and the inputs drawn from them *)

MaxSteps == 2
MaxKeys == 2

Word(op, rest) == op * 4096 + rest
RegWord(op, a, b, low6) == Word(op, a * 512 + b * 64 + low6)
PcWord(op, a, off9) == Word(op, a * 512 + off9)

\* The loaded image away from the program: strings, pointers and values.
Data ==
    [a \in {12543, 12304, 12305, 12307, 12544, 12545, 12560, 12561, 12576, 12577, 17, 18} |->
        CASE a = 12543 -> 12305      \* x30FF -> x3011
          [] a = 12304 -> 12544      \* x3010 -> x3100
          [] a = 12305 -> 32769      \* x3011: x8001
          [] a = 12307 -> 65024      \* x3013 -> KBSR
          [] a = 12544 -> 72         \* x3100: "HI"
          [] a = 12545 -> 73
          [] a = 12560 -> 256        \* x3110: x0100, "A"
          [] a = 12561 -> 65
          [] a = 12576 -> 18760      \* x3120: x4948, x004A
          [] a = 12577 -> 74
          [] a = 17 -> 12545         \* x0011 -> x3101
          [] a = 18 -> 12576]        \* x0012 -> x3120

\* The image: the instruction word i in the MaxSteps words from pc on, over Data.
RECURSIVE Fill(_, _, _, _)
Fill(m, pc, i, n) ==
    IF n = 0 THEN m ELSE Fill(MemSet(m, pc, i), wrapping_add(pc, 1), i, n - 1)

Program(pc, i) == Fill(Data, pc, i, MaxSteps)

Registers(r0, r1) ==
    [r \in 0..7 |->
        CASE r = 0 -> r0
          [] r = 1 -> r1
          [] r = 2 -> MR_KBSR
          [] r = 3 -> 1
          [] r = 4 -> 12304
          [] r = 5 -> 32767
          [] r = 6 -> 32768
          [] r = 7 -> 16384]

R0s == {12544, 12545, 12560, 12576, 321, 0}
R1s == {0, 1, 32767, 32768, 65535}
Conds == {FL_POS, FL_ZRO, FL_NEG}
Keys == {65, 66, NEWLINE}

AluWords ==
    UNION {
        {RegWord(op, dr, sr1, 32 + imm) :
            dr \in {0, 1, 7}, sr1 \in {0, 1, 6}, imm \in {0, 1, 15, 16, 31}}
        \cup {RegWord(op, dr, sr1, sr2) : dr \in {0, 1, 7}, sr1 \in {0, 1, 6}, sr2 \in {0, 1, 5}}
        : op \in {OP_ADD, OP_AND}}
    \cup {RegWord(OP_NOT, dr, sr, 63) : dr \in {0, 1, 7}, sr \in {0, 1, 4}}

CtlWords ==
    {PcWord(OP_BR, nzp, off) : nzp \in {0, 1, 2, 4, 5, 7}, off \in {10, 510}}
    \cup {RegWord(OP_JMP, 0, b, 0) : b \in {0, 1, 7}}
    \cup {Word(OP_JSR, 2048 + off) : off \in {0, 16, 1023, 1024, 2047}}
    \cup {RegWord(OP_JSR, 0, b, 0) : b \in {0, 1, 4, 7}}
    \cup {PcWord(OP_LEA, dr, off) : dr \in {0, 1, 7}, off \in {0, 5, 255, 256, 511}}
    \cup {Word(OP_RTI, 0), Word(OP_RES, 0), Word(OP_RTI, 2748)}

MemWords ==
    {PcWord(OP_LD, dr, off) : dr \in {0, 1, 3}, off \in {15, 16, 17, 510}}
    \cup {PcWord(OP_LDI, dr, off) : dr \in {0, 1, 3}, off \in {15, 16, 18, 510}}
    \cup {RegWord(OP_LDR, dr, b, off) : dr \in {0, 1, 3}, b \in {1, 2, 4}, off \in {0, 1, 2, 63}}
    \cup {PcWord(op, sr, off) : op \in {OP_ST, OP_STI}, sr \in {1, 5}, off \in {9, 10, 510}}
    \cup {RegWord(OP_STR, sr, 4, off) : sr \in {1, 5}, off \in {0, 63}}

TrapWords ==
    {Word(OP_TRAP, v) : v \in {TRAP_GETC, TRAP_OUT, TRAP_PUTS, TRAP_IN, TRAP_PUTSP,
                               TRAP_HALT, 38, 0, 255}}
    \cup {RegWord(OP_LDR, 1, 2, off) : off \in {0, 2}}
    \cup {PcWord(OP_LDI, 0, 18)}

Scripts == UNION {[1..n -> Keys] : n \in 0..MaxKeys}

-----------------------------------------------------------------------------
(* The machine *)

InitMachine(pc, i, regs, cond, run, script) ==
    /\ reg = [r \in 0..(R_COUNT - 1) |->
                 IF r = R_COND THEN cond ELSE IF r = R_PC THEN pc ELSE regs[r]]
    /\ mem = Program(pc, i)
    /\ running = run
    /\ instr = 0
    /\ phase = "fetch"
    /\ steps = 0
    /\ tty = <<>>
    /\ stdin_buf = <<>>
    /\ stdout = <<>>
    /\ reads = <<>>
    /\ to_type = script
    /\ se_x = 0
    /\ se_n = 1
    /\ se_r = [state |-> "none", val |-> 0]

Init ==
    /\ overflow_checks \in BOOLEAN
    /\ \/ \E i \in AluWords, r1 \in R1s :
              InitMachine(PC_START, i, Registers(12544, r1), FL_ZRO, TRUE, <<>>)
       \/ \E i \in CtlWords, pc \in {PC_START, 65534, 65535}, cond \in Conds,
             r1 \in {12368, 65535} :
              InitMachine(pc, i, Registers(12544, r1), cond, TRUE, <<>>)
       \/ \E i \in MemWords, r1 \in R1s, cond \in Conds :
              InitMachine(PC_START, i, Registers(12544, r1), cond, TRUE, <<>>)
       \/ \E i \in TrapWords, r0 \in R0s, run \in BOOLEAN, script \in Scripts :
              InitMachine(PC_START, i, Registers(r0, 1), FL_POS, run, script)

\* The State the routines are handed, and the State they hand back.
Start ==
    [reg |-> reg, mem |-> mem, running |-> running, tty |-> tty, stdin_buf |-> stdin_buf,
     stdout |-> stdout, reads |-> <<>>, panicked |-> FALSE]

Install(s) ==
    /\ reg' = s.reg
    /\ mem' = s.mem
    /\ running' = s.running
    /\ tty' = s.tty
    /\ stdin_buf' = s.stdin_buf
    /\ stdout' = s.stdout
    /\ reads' = s.reads

Rest == <<overflow_checks, to_type, se_x, se_n, se_r>>

\* The user types the next byte.
KeyPress ==
    /\ phase \in {"fetch", "dispatch"}
    /\ to_type # <<>>
    /\ tty' = Append(tty, Head(to_type))
    /\ to_type' = Tail(to_type)
    /\ UNCHANGED <<reg, mem, running, instr, phase, steps, overflow_checks, stdin_buf,
                   stdout, reads, se_x, se_n, se_r>>

\* main.rs 17-18: `let instr = mem_read(reg[PC]); reg[PC] += 1;`. The `+= 1` of
\* 0xFFFF panics with overflow checks and wraps without.
Fetch ==
    /\ phase = "fetch"
    /\ steps < MaxSteps
    /\ LET a == MemoryRead(Start, reg[R_PC])
       IN  /\ instr' = a.value
           /\ IF reg[R_PC] = U16 - 1 /\ overflow_checks
              THEN Install(a.s) /\ phase' = "panic"
              ELSE Install([a.s EXCEPT !.reg[R_PC] = wrapping_add(@, 1)]) /\ phase' = "dispatch"
    /\ steps' = steps + 1
    /\ UNCHANGED Rest

\* main.rs 20-21: `let op = instr >> 12; match OP::try_from(op)`.
Arm(op) == phase = "dispatch" /\ Shr(instr, 12) = op

Finish(s) ==
    /\ Install(s)
    /\ phase' = IF s.panicked THEN "panic" ELSE "fetch"
    /\ UNCHANGED <<instr, steps>>
    /\ UNCHANGED Rest

ExecBR == Arm(OP_BR) /\ Finish(do_br(instr, Start))
ExecADD == Arm(OP_ADD) /\ Finish(do_add(instr, Start))
ExecLD == Arm(OP_LD) /\ Finish(do_ld(instr, Start))
ExecST == Arm(OP_ST) /\ Finish(do_st(instr, Start))
ExecJSR == Arm(OP_JSR) /\ Finish(do_jsr(instr, Start))
ExecAND == Arm(OP_AND) /\ Finish(do_and(instr, Start))
ExecLDR == Arm(OP_LDR) /\ Finish(do_ldr(instr, Start))
ExecSTR == Arm(OP_STR) /\ Finish(do_str(instr, Start))
ExecNOT == Arm(OP_NOT) /\ Finish(do_not(instr, Start))
ExecLDI == Arm(OP_LDI) /\ Finish(do_ldi(instr, Start))
ExecSTI == Arm(OP_STI) /\ Finish(do_sti(instr, Start))
ExecJMP == Arm(OP_JMP) /\ Finish(do_jmp(instr, Start))
ExecLEA == Arm(OP_LEA) /\ Finish(do_lea(instr, Start))
ExecTRAP == Arm(OP_TRAP) /\ ~trap_blocks(instr, Start) /\ Finish(do_trap(instr, Start))

\* main.rs 30, 35: `OP::RTI => todo!()`, `OP::RES => todo!()`.
ExecTodo ==
    /\ Arm(OP_RTI) \/ Arm(OP_RES)
    /\ phase' = "panic"
    /\ reads' = <<>>
    /\ UNCHANGED <<reg, mem, running, instr, steps, tty, stdin_buf, stdout>>
    /\ UNCHANGED Rest

Next ==
    \/ KeyPress
    \/ Fetch
    \/ ExecBR
    \/ ExecADD
    \/ ExecLD
    \/ ExecST
    \/ ExecJSR
    \/ ExecAND
    \/ ExecLDR
    \/ ExecSTR
    \/ ExecNOT
    \/ ExecLDI
    \/ ExecSTI
    \/ ExecJMP
    \/ ExecLEA
    \/ ExecTRAP
    \/ ExecTodo

Spec == Init /\ [][Next]_vars

-----------------------------------------------------------------------------
(* sign_extend on its own: one call on a drawn argument, in a process whose      *)
(* State is as State::new() made it                                              *)

SignExtendInputs ==
    {0, 1, 2, 5, 15, 16, 31, 32, 63, 255, 256, 511, 1023, 1024, 2047, 21845, 32767,
     32768, 32769, 43690, 65535}

InitSignExtend ==
    /\ overflow_checks \in BOOLEAN
    /\ se_n \in 1..16
    /\ \E v \in SignExtendInputs : se_x = v % (2 ^ se_n)
    /\ se_r = [state |-> "none", val |-> 0]
    /\ reg = StateNew.reg
    /\ mem = StateNew.mem
    /\ running = StateNew.running
    /\ instr = 0
    /\ phase = "fetch"
    /\ steps = 0
    /\ tty = <<>>
    /\ stdin_buf = <<>>
    /\ stdout = <<>>
    /\ reads = <<>>
    /\ to_type = <<>>

CallSignExtend ==
    /\ se_r.state = "none"
    /\ se_r' = IF overflow_checks /\ sign_extend_overflows(se_x, se_n)
               THEN [state |-> "panic", val |-> 0]
               ELSE [state |-> "ok", val |-> sign_extend(se_x, se_n)]
    /\ UNCHANGED <<machine, overflow_checks, se_x, se_n>>

SpecSignExtend == InitSignExtend /\ [][CallSignExtend]_vars

-----------------------------------------------------------------------------
(* Reading the machine *)

Opcode(i) == Shr(i, 12)
DR(i) == BitAnd(Shr(i, 9), 7)
SR1(i) == BitAnd(Shr(i, 6), 7)
Offset9(i) == TwosComplement(BitAnd(i, 511), 9)
TrapVector(i) == BitAnd(i, 255)

\* The routine for opcode `op` has just run on `instr`.
Executed(op) == phase = "fetch" /\ steps > 0 /\ Opcode(instr) = op

\* This step runs the routine for opcode `op` on `instr`, to its end.
Executes(op) == Arm(op) /\ phase' = "fetch"

\* Where `instr` was fetched from: the one address the fetch read.
InstrAddress == reads[1]

FlagOf(v) == IF v = 0 THEN FL_ZRO ELSE IF v >= 2 ^ 15 THEN FL_NEG ELSE FL_POS

-----------------------------------------------------------------------------
(* The claims *)

\* C1: once TRAP HALT (vector 0x25) has executed the machine is HALTED and nothing is
\* fetched any more: PC, the registers and memory never change again.
C1_HaltStopsTheLoop ==
    [][(Executed(OP_TRAP) /\ TrapVector(instr) = TRAP_HALT)
          => (~running /\ UNCHANGED <<reg, mem, instr>>)]_vars

\* C2: after ADD, AND, NOT, LD, LDI, LDR or LEA, COND is the one flag that matches the
\* final value of the register named by instruction bits [11:9].
FlagOps == {OP_ADD, OP_AND, OP_NOT, OP_LD, OP_LDI, OP_LDR, OP_LEA}

C2_FlagsMatchDR ==
    (\E op \in FlagOps : Executed(op)) => reg[R_COND] = FlagOf(reg[DR(instr)])

\* C3: LDI DR,offset with memory[PC + sext(offset9)] = B and memory[B] = V leaves DR = V.
C3_LdiIndirection ==
    [][Executes(OP_LDI) =>
          LET A == wrapping_add(reg[R_PC], Offset9(instr))
              B == MemGet(mem, A)
          IN  (A # MR_KBSR /\ B # MR_KBSR) => reg'[DR(instr)] = MemGet(mem, B)]_vars

After ==
    [reg |-> reg', mem |-> mem', running |-> running', tty |-> tty',
     stdin_buf |-> stdin_buf', stdout |-> stdout', reads |-> <<>>, panicked |-> FALSE]

\* This step is an LDR whose effective address is the keyboard-status address.
StatusRead ==
    /\ Executes(OP_LDR)
    /\ wrapping_add(reg[SR1(instr)], sign_extend(BitAnd(instr, 63), 6)) = MR_KBSR

\* C5: with no input pending, a read of the keyboard-status address (0xFE00) returns
\* a word with bit 15 clear and leaves the keyboard-data word (0xFE02) as it was,
\* and so does the read after it.
C5_NoInputStatusClear ==
    tty = <<>> =>
        LET first == MemoryRead(Start, MR_KBSR)
            second == MemoryRead(first.s, MR_KBSR)
        IN  /\ first.value < 2 ^ 15
            /\ second.value < 2 ^ 15
            /\ MemGet(first.s.mem, MR_KBDR) = MemGet(mem, MR_KBDR)
            /\ MemGet(second.s.mem, MR_KBDR) = MemGet(mem, MR_KBDR)

\* Two status reads in a row: the first delivered "A", the second found nothing
\* pending, read 0 and left "A" in the keyboard-data word.
C5_Witness ==
    /\ Executed(OP_LDR)
    /\ steps = 2
    /\ reads = <<MR_KBSR>>
    /\ tty = <<>>
    /\ stdin_buf = <<>>
    /\ reg[DR(instr)] = 0
    /\ MemGet(mem, MR_KBSR) = 0
    /\ MemGet(mem, MR_KBDR) = 65

\* C6: a status read with a character pending returns bit 15 set, stores the oldest
\* pending character in the keyboard-data word and consumes it; with none pending it
\* returns bit 15 clear. So every typed character is surfaced once, in arrival order.
C6_EachKeySurfacedOnce ==
    [][StatusRead =>
          LET pending == StdinAvail(Start)
          IN  IF pending = <<>>
              THEN reg'[DR(instr)] < 2 ^ 15
              ELSE /\ reg'[DR(instr)] >= 2 ^ 15
                   /\ MemGet(mem', MR_KBDR) = Head(pending)
                   /\ StdinAvail(After) = Tail(pending)]_vars

\* The number of words from address a up to the first word that is zero.
RECURSIVE WordsBeforeZero(_, _)
WordsBeforeZero(m, a) ==
    IF MemGet(m, a) = 0 THEN 0 ELSE 1 + WordsBeforeZero(m, wrapping_add(a, 1))

\* C7: TRAP PUTS writes one character for each word from the address in R0 up to the
\* first word that is zero, reads that word, and reads nothing after it.
C7_PutsStopsAtZeroWord ==
    [][(Executes(OP_TRAP) /\ TrapVector(instr) = TRAP_PUTS) =>
          LET n == WordsBeforeZero(mem, reg[R_R0])
          IN  /\ reads' = [k \in 1..(n + 1) |-> wrapping_add(reg[R_R0], k - 1)]
              /\ Len(stdout') = Len(stdout) + n]_vars

\* C8: for every width n in 1..16 and every x below 2^n, sign_extend(x, n) does not
\* fail and returns x read as a signed n-bit integer, in 16-bit two's complement;
\* that is x itself when bit n-1 of x is 0.
C8_SignExtend ==
    se_r.state # "none" =>
        /\ se_r.state = "ok"
        /\ se_r.val = TwosComplement(se_x, se_n)
        /\ (se_x < 2 ^ (se_n - 1) => se_r.val = se_x)

\* C9: ADD DR,SR1,#0 leaves in DR the value SR1 held before the instruction, and
\* AND DR,SR1,#0 leaves 0 in DR.
C9_AddAndImmediateZero ==
    [][/\ (Executes(OP_ADD) /\ BitAnd(instr, 63) = 32) => reg'[DR(instr)] = reg[SR1(instr)]
       /\ (Executes(OP_AND) /\ BitAnd(instr, 63) = 32) => reg'[DR(instr)] = 0]_vars

C9_Witness ==
    /\ Executed(OP_ADD)
    /\ steps = 1
    /\ BitAnd(instr, 63) = 32
    /\ DR(instr) = 0
    /\ SR1(instr) = 6
    /\ reg[0] = 32768
    /\ reg[R_COND] = FL_NEG

\* C10: an instruction whose opcode is RTI or RES ends the run cleanly: the loop
\* leaves the match HALTED, with the State as it was, and not by a panic.
C10_RtiResHaltCleanly ==
    [][((Arm(OP_RTI) \/ Arm(OP_RES)) /\ phase' # phase) =>
          (phase' # "panic" /\ ~running' /\ UNCHANGED <<reg, mem>>)]_vars


\* The trap vector of i is none of 0x20..0x25.
UnknownVector(i) ==
    TrapVector(i) \notin {TRAP_GETC, TRAP_OUT, TRAP_PUTS, TRAP_IN, TRAP_PUTSP, TRAP_HALT}

\* C11: a TRAP whose vector is not one of 0x20..0x25 is fatal: the step that runs it
\* aborts the run, and once the run is aborted nothing is fetched or executed.
C11_UnknownTrapIsFatal ==
    [][/\ (Arm(OP_TRAP) /\ UnknownVector(instr) /\ phase' # phase) => phase' = "panic"
       /\ phase # "panic"]_vars

C11_Witness ==
    /\ phase = "panic"
    /\ steps = 1
    /\ Opcode(instr) = OP_TRAP
    /\ TrapVector(instr) = 38
    /\ reg[R_PC] = PC_START + 1

\* C12: every instruction word is handled by a routine or by terminating the run:
\* the match on the opcode never aborts by itself. The one abort a dispatched word
\* can end in is that of the TRAP routine on an unknown vector.
C12_EveryWordHandled ==
    [][(phase = "dispatch" /\ phase' = "panic") => Opcode(instr) = OP_TRAP]_vars

\* C13: a freshly created State has COND = ZRO, PC = 0x3000, every memory word 0
\* and is RUNNING.
C13_FreshState ==
    steps = 0 =>
        /\ reg[R_COND] = FL_ZRO
        /\ reg[R_PC] = PC_START
        /\ DOMAIN mem = {}
        /\ running

\* C14: ST writes the register named by bits [11:9] to the address
\* PC + sign_extend(offset9), PC being the incremented program counter, and changes
\* no other memory word.
C14_StStoresPcRelative ==
    [][Executes(OP_ST) =>
          mem' = MemSet(mem, wrapping_add(reg[R_PC], Offset9(instr)), reg[DR(instr)])]_vars

\* C15: STI writes the register named by bits [11:9] to the address held in the word
\* at PC + sign_extend(offset9), and changes no other memory word.
C15_StiStoresIndirect ==
    [][Executes(OP_STI) =>
          LET A == wrapping_add(reg[R_PC], Offset9(instr))
          IN  A # MR_KBSR => mem' = MemSet(mem, MemGet(mem, A), reg[DR(instr)])]_vars

NoFlagOps == {OP_BR, OP_JMP, OP_JSR, OP_ST, OP_STI, OP_STR}

C17_CondKeptByNonFlagOps ==
    [][(\E op \in NoFlagOps : Executes(op)) => reg'[R_COND] = reg[R_COND]]_vars

\* STR R5,R4,#0 stored the positive x7FFF at x3010 and COND is still NEG.
C17_Witness ==
    /\ Executed(OP_STR)
    /\ steps = 1
    /\ DR(instr) = 5
    /\ MemGet(mem, 12304) = 32767
    /\ reg[R_COND] = FL_NEG

\* The effective address of a PC-relative instruction fetched from address a.
EffectiveAddress(a, i) == (a + 1 + Offset9(i)) % U16

RECURSIVE PackedBytes(_, _)
PackedBytes(m, a) ==
    LET w == MemGet(m, a)
        lo == w % 256
        hi == w \div 256
    IN  IF w = 0
        THEN <<>>
        ELSE (IF lo # 0 THEN <<lo>> ELSE <<>>) \o (IF hi # 0 THEN <<hi>> ELSE <<>>)
                 \o PackedBytes(m, wrapping_add(a, 1))

\* C19: TRAP PUTSP writes the non-zero bytes of the words from the address in R0 up
\* to the first zero word, low byte first: a word whose high byte is 0 gives one byte.
C19_PutspWritesNonZeroBytes ==
    [][(Executes(OP_TRAP) /\ TrapVector(instr) = TRAP_PUTSP) =>
          stdout' = stdout \o PackedBytes(mem, reg[R_R0])]_vars

\* C20: a step of the loop fetches the word at PC and increments PC modulo 65536
\* before the dispatch; at PC = 0xFFFF that leaves PC = 0 and is no error.
C20_FetchIncrementWraps ==
    [][(phase = "fetch" /\ phase' # "fetch") =>
          /\ phase' = "dispatch"
          /\ instr' = MemGet(mem, reg[R_PC])
          /\ reg' = [reg EXCEPT ![R_PC] = (reg[R_PC] + 1) % U16]]_vars

C22_RunStateFrame ==
    [][running' # running =>
          \/ Arm(OP_TRAP) /\ TrapVector(instr) = TRAP_HALT
          \/ Arm(OP_RTI)
          \/ Arm(OP_RES)]_vars

\* TRAP PUTS printed "HI" and the machine is still running.
C22_Witness ==
    /\ Executed(OP_TRAP)
    /\ TrapVector(instr) = TRAP_PUTS
    /\ steps = 1
    /\ stdout = <<72, 73>>
    /\ running

\* C23: after JSRR BaseR, PC is the value BaseR held before the instruction, for
\* every BaseR in R0..R7, R7 included.
C23_JsrrJumpsToOldBase ==
    [][(Executes(OP_JSR) /\ BitAnd(Shr(instr, 11), 1) = 0) =>
          reg'[R_PC] = reg[SR1(instr)]]_vars

=============================================================================
